---- MODULE Spec2Model ----
(***************************************************************************)
(* Model of the mhttp JSON engine (http/src/jsonable.rs) and of the code   *)
(* the Jsonable derive generates (json/src/lib.rs).                        *)
(*                                                                         *)
(* Text is a sequence of one-character strings.  A Token and a JsonValue   *)
(* are records [t |-> variant, v |-> payload].  An f64 is the record       *)
(* [m |-> mantissa, e |-> decimal places] in lowest terms: the literals    *)
(* within the bounds are short decimals, which f64 holds exactly.          *)
(* A Result is a record with ok = TRUE/FALSE; position is 0-based as in    *)
(* the code, so the token at the cursor is tokens[position + 1].           *)
(***************************************************************************)
EXTENDS Integers, Sequences, FiniteSets, TLC

VARIABLES
    input,      \* the text handed to Parser::parse_json / from_json
    tokens,     \* Parser.tokens
    position,   \* Parser.position
    record,     \* the struct value into_json is called on
    result,     \* what the last call returned
    target,     \* the type and the JsonValue from_json_value is called with
    app,        \* App: handlers and middlewares
    history,    \* the registration calls made on the App, in order
    served,     \* the last handle_request: request, response, closures run
    socket      \* the TcpStream of process: the reads to come, the bytes written

\* the variables of the JSON engine, and the others
jsonVars == <<input, tokens, position, record, result>>
others   == <<target, app, history, served, socket>>

vars == <<input, tokens, position, record, result, target, app, history, served, socket>>

----------------------------------------------------------------------------
(* Token and JsonValue constructors (enum Token, enum JsonValue) *)

NoPayload == <<>>

CurlyOpen    == [t |-> "CurlyOpen",    v |-> NoPayload]
CurlyClose   == [t |-> "CurlyClose",   v |-> NoPayload]
BracketOpen  == [t |-> "BracketOpen",  v |-> NoPayload]
BracketClose == [t |-> "BracketClose", v |-> NoPayload]
Colon        == [t |-> "Colon",        v |-> NoPayload]
Comma        == [t |-> "Comma",        v |-> NoPayload]
TokString(s)  == [t |-> "String",  v |-> s]
TokNumber(n)  == [t |-> "Number",  v |-> n]
TokBoolean(b) == [t |-> "Boolean", v |-> b]
TokNull       == [t |-> "Null",    v |-> NoPayload]

JNull       == [t |-> "Null",    v |-> NoPayload]
JBoolean(b) == [t |-> "Boolean", v |-> b]
JNumber(n)  == [t |-> "Number",  v |-> n]
JString(s)  == [t |-> "String",  v |-> s]
JArray(a)   == [t |-> "Array",   v |-> a]
JObject(m)  == [t |-> "Object",  v |-> m]

----------------------------------------------------------------------------
(* Error messages, as the code writes them (the formatted argument is kept *)
(* apart in arg)                                                           *)

ErrEnd          == "Unexpected end of input"
ErrEmpty        == "Empty input"
ErrToken        == "Unexpected token: "
ErrArrayNext    == "Expected comma or closing bracket, got: "
ErrObjectNext   == "Expected comma or closing curly brace, got: "
ErrKey          == "Expected string key in object."
ErrColon        == "Expected colon after key."
ErrTrailing     == "Unexpected tokens after JSON value: "
ErrNumber       == "Invalid number."
ErrKeyword      == "Invalid token"
ErrChar         == "Unexpected character: "

MkErr(msg, arg) == [msg |-> msg, arg |-> arg]

----------------------------------------------------------------------------
(* f64: parsing of a literal (str::parse::<f64>) and Display               *)

Digits == <<"0", "1", "2", "3", "4", "5", "6", "7", "8", "9">>

is_ascii_digit(ch) == \E d \in 1..10 : Digits[d] = ch

DigitVal(ch) == (CHOOSE d \in 1..10 : Digits[d] = ch) - 1

is_whitespace(ch) == ch \in {" ", "\n", "\t", "\r", "\f"}

RECURSIVE Pow10(_)
Pow10(k) == IF k = 0 THEN 1 ELSE 10 * Pow10(k - 1)

RECURSIVE Normalize(_, _)
Normalize(m, e) ==
    IF e > 0 /\ m % 10 = 0 THEN Normalize(m \div 10, e - 1)
    ELSE [m |-> m, e |-> e]

F64(m, e) == Normalize(m, e)

RECURSIVE DigitsValue(_)
DigitsValue(s) ==
    IF s = <<>> THEN 0
    ELSE 10 * DigitsValue(SubSeq(s, 1, Len(s) - 1)) + DigitVal(s[Len(s)])

\* The decimal grammar of f64::from_str restricted to the characters the
\* lexer lets through (digits, '.', '-'):
\*   '-'? ( digit+ | digit+ '.' digit* | digit* '.' digit+ )
parse_f64(s) ==
    LET neg   == s # <<>> /\ s[1] = "-"
        body  == IF neg THEN SubSeq(s, 2, Len(s)) ELSE s
        dots  == {i \in 1..Len(body) : body[i] = "."}
        wellformed ==
            /\ \A i \in 1..Len(body) : is_ascii_digit(body[i]) \/ body[i] = "."
            /\ Cardinality(dots) <= 1
            /\ \E i \in 1..Len(body) : is_ascii_digit(body[i])
        dot   == IF dots = {} THEN Len(body) + 1 ELSE CHOOSE i \in dots : TRUE
        ds    == SubSeq(body, 1, dot - 1) \o SubSeq(body, dot + 1, Len(body))
        scale == IF dots = {} THEN 0 ELSE Len(body) - dot
        mag   == DigitsValue(ds)
    IN  IF wellformed
        THEN [ok |-> TRUE,  val |-> F64(IF neg THEN 0 - mag ELSE mag, scale)]
        ELSE [ok |-> FALSE, val |-> F64(0, 0)]

RECURSIVE NatToString(_)
NatToString(n) ==
    IF n < 10 THEN <<Digits[n + 1]>>
    ELSE NatToString(n \div 10) \o <<Digits[(n % 10) + 1]>>

RECURSIVE PadLeft(_, _)
PadLeft(s, w) == IF Len(s) >= w THEN s ELSE PadLeft(<<"0">> \o s, w)

\* f64's Display: shortest decimal, no exponent, no trailing ".0"
f64_to_string(n) ==
    LET mag  == IF n.m < 0 THEN 0 - n.m ELSE n.m
        sign == IF n.m < 0 THEN <<"-">> ELSE <<>>
        p    == Pow10(n.e)
    IN  IF n.e = 0 THEN sign \o NatToString(mag)
        ELSE sign \o NatToString(mag \div p) \o <<".">>
                  \o PadLeft(NatToString(mag % p), n.e)

bool_to_string(b) == IF b THEN <<"t", "r", "u", "e">> ELSE <<"f", "a", "l", "s", "e">>

----------------------------------------------------------------------------
(* tokenize                                                                *)

\* chars.by_ref().take(n).collect(): the next n characters (fewer at the end)
Take(chars, i, n) ==
    SubSeq(chars, i, IF i + n - 1 <= Len(chars) THEN i + n - 1 ELSE Len(chars))

\* index of the closing quote of the literal whose content starts at i,
\* or Len(chars) + 1 when the input ends first
RECURSIVE StringEnd(_, _)
StringEnd(chars, i) ==
    IF i > Len(chars) THEN i
    ELSE IF chars[i] = "\"" THEN i
    ELSE StringEnd(chars, i + 1)

\* first index at or after i that is not a digit, '.' or '-'
RECURSIVE NumberEnd(_, _)
NumberEnd(chars, i) ==
    IF i > Len(chars) THEN i
    ELSE IF is_ascii_digit(chars[i]) \/ chars[i] = "." \/ chars[i] = "-"
         THEN NumberEnd(chars, i + 1)
    ELSE i

Punctuation(c) ==
    CASE c = "{" -> CurlyOpen
      [] c = "}" -> CurlyClose
      [] c = "[" -> BracketOpen
      [] c = "]" -> BracketClose
      [] c = ":" -> Colon
      [] c = "," -> Comma

Keyword(c) ==
    CASE c = "t" -> [text |-> <<"t", "r", "u", "e">>,      tok |-> TokBoolean(TRUE)]
      [] c = "f" -> [text |-> <<"f", "a", "l", "s", "e">>, tok |-> TokBoolean(FALSE)]
      [] c = "n" -> [text |-> <<"n", "u", "l", "l">>,      tok |-> TokNull]

\* the while-let loop of tokenize: i is the index of the next character,
\* toks the tokens pushed so far
RECURSIVE tokenize_loop(_, _, _)
tokenize_loop(chars, i, toks) ==
    IF i > Len(chars) THEN [ok |-> TRUE, val |-> toks, err |-> MkErr("", <<>>)]
    ELSE
      LET c == chars[i] IN
      IF c \in {"{", "}", "[", "]", ":", ","}
      THEN tokenize_loop(chars, i + 1, Append(toks, Punctuation(c)))
      ELSE IF c = "\""
      THEN LET close == StringEnd(chars, i + 1)
               s     == SubSeq(chars, i + 1, close - 1)
           IN  tokenize_loop(chars, close + 1, Append(toks, TokString(s)))
      ELSE IF is_ascii_digit(c) \/ c = "-"
      THEN LET stop == NumberEnd(chars, i)
               num  == parse_f64(SubSeq(chars, i, stop - 1))
           IN  IF num.ok
               THEN tokenize_loop(chars, stop, Append(toks, TokNumber(num.val)))
               ELSE [ok |-> FALSE, val |-> <<>>, err |-> MkErr(ErrNumber, <<>>)]
      ELSE IF c \in {"t", "f", "n"}
      THEN LET kw == Keyword(c) IN
           IF Take(chars, i, Len(kw.text)) = kw.text
           THEN tokenize_loop(chars, i + Len(kw.text), Append(toks, kw.tok))
           ELSE [ok |-> FALSE, val |-> <<>>, err |-> MkErr(ErrKeyword, <<>>)]
      ELSE IF is_whitespace(c)
      THEN tokenize_loop(chars, i + 1, toks)
      ELSE [ok |-> FALSE, val |-> <<>>, err |-> MkErr(ErrChar, <<c>>)]

tokenize(chars) == tokenize_loop(chars, 1, <<>>)

----------------------------------------------------------------------------
(* Parser.  Every operation returns                                        *)
(*   [ok, val, err, pos, steps]                                            *)
(* where pos is Parser.position after the call and steps counts the calls  *)
(* of peek and consume made so far.                                        *)

POk(val, pos, steps)  == [ok |-> TRUE,  val |-> val, err |-> MkErr("", <<>>), pos |-> pos, steps |-> steps]
PErr(err, pos, steps) == [ok |-> FALSE, val |-> JNull, err |-> err, pos |-> pos, steps |-> steps]

\* a peek that moves the cursor past the token it returns
peek_advancing(toks, pos, steps) ==
    IF pos >= Len(toks)
    THEN PErr(MkErr(ErrEnd, <<>>), pos, steps + 1)
    ELSE POk(toks[pos + 1], pos + 1, steps + 1)

peek(toks, pos, steps) ==
    IF pos >= Len(toks)
    THEN PErr(MkErr(ErrEnd, <<>>), pos, steps + 1)
    ELSE POk(toks[pos + 1], pos, steps + 1)

\* consume that advances before it checks the bound
consume_unchecked(toks, pos, steps) ==
    IF pos >= Len(toks)
    THEN PErr(MkErr(ErrEnd, <<>>), pos + 1, steps + 1)
    ELSE POk(toks[pos + 1], pos + 1, steps + 1)

consume(toks, pos, steps) ==
    IF pos >= Len(toks)
    THEN PErr(MkErr(ErrEnd, <<>>), pos, steps + 1)
    ELSE POk(toks[pos + 1], pos + 1, steps + 1)

RECURSIVE parse_value(_, _, _)
RECURSIVE parse_array(_, _, _)
RECURSIVE parse_array_loop(_, _, _, _)
RECURSIVE parse_object(_, _, _)
RECURSIVE parse_object_loop(_, _, _, _)

\* a leaf arm that looks again at every token before the leaf
parse_leaf_rescanning(toks, pos, steps, leaf) ==
    LET c == consume(toks, pos, steps)
    IN  IF ~c.ok THEN c ELSE POk(leaf, c.pos, c.steps + pos)

\* parse_value, leaf arms: the token consumes itself and becomes the leaf
parse_leaf(toks, pos, steps, leaf) ==
    LET c == consume(toks, pos, steps)
    IN  IF ~c.ok THEN c ELSE POk(leaf, c.pos, c.steps)

parse_value(toks, pos, steps) ==
    LET p == peek(toks, pos, steps) IN
    IF ~p.ok THEN p
    ELSE LET token == p.val IN
         CASE token.t = "Null"        -> parse_leaf(toks, pos, p.steps, JNull)
           [] token.t = "Boolean"     -> parse_leaf(toks, pos, p.steps, JBoolean(token.v))
           [] token.t = "Number"      -> parse_leaf(toks, pos, p.steps, JNumber(token.v))
           [] token.t = "String"      -> parse_leaf(toks, pos, p.steps, JString(token.v))
           [] token.t = "BracketOpen" -> parse_array(toks, pos, p.steps)
           [] token.t = "CurlyOpen"   -> parse_object(toks, pos, p.steps)
           [] OTHER                   -> PErr(MkErr(ErrToken, token), pos, p.steps)

\* parse_array_next that takes the end of the input for the closing bracket
parse_array_next_eof_closes(toks, pos, steps, elements) ==
    LET p == peek(toks, pos, steps) IN
    IF ~p.ok THEN POk(JArray(elements), pos, p.steps)
    ELSE IF p.val = Comma
    THEN LET c == consume(toks, pos, p.steps)
         IN  IF ~c.ok THEN c ELSE parse_array_loop(toks, c.pos, c.steps, elements)
    ELSE IF p.val = BracketClose
    THEN LET c == consume(toks, pos, p.steps)
         IN  IF ~c.ok THEN c ELSE POk(JArray(elements), c.pos, c.steps)
    ELSE PErr(MkErr(ErrArrayNext, p.val), pos, p.steps)

\* parse_array_next that goes on with the next element when the comma is
\* missing
parse_array_next_lenient(toks, pos, steps, elements) ==
    LET p == peek(toks, pos, steps) IN
    IF ~p.ok THEN p
    ELSE IF p.val = Comma
    THEN LET c == consume(toks, pos, p.steps)
         IN  IF ~c.ok THEN c ELSE parse_array_loop(toks, c.pos, c.steps, elements)
    ELSE IF p.val = BracketClose
    THEN LET c == consume(toks, pos, p.steps)
         IN  IF ~c.ok THEN c ELSE POk(JArray(elements), c.pos, c.steps)
    ELSE parse_array_loop(toks, pos, p.steps, elements)

\* parse_array, after an element: ',' continues the loop, ']' leaves it and
\* is consumed, anything else is an error
parse_array_next(toks, pos, steps, elements) ==
    LET p == peek(toks, pos, steps) IN
    IF ~p.ok THEN p
    ELSE IF p.val = Comma
    THEN LET c == consume(toks, pos, p.steps)
         IN  IF ~c.ok THEN c ELSE parse_array_loop(toks, c.pos, c.steps, elements)
    ELSE IF p.val = BracketClose
    THEN LET c == consume(toks, pos, p.steps)
         IN  IF ~c.ok THEN c ELSE POk(JArray(elements), c.pos, c.steps)
    ELSE PErr(MkErr(ErrArrayNext, p.val), pos, p.steps)

\* an element loop that steps over the token its element failed on before
\* it returns the error
parse_array_loop_resync(toks, pos, steps, elements) ==
    LET e == parse_value(toks, pos, steps)
    IN  IF ~e.ok
        THEN LET skip == consume(toks, e.pos, e.steps)
             IN  PErr(e.err, skip.pos, skip.steps)
        ELSE parse_array_next(toks, e.pos, e.steps, Append(elements, e.val))

\* one iteration of the element loop of parse_array
parse_array_loop(toks, pos, steps, elements) ==
    LET e == parse_value(toks, pos, steps)
    IN  IF ~e.ok THEN e
        ELSE parse_array_next(toks, e.pos, e.steps, Append(elements, e.val))

\* parse_array without the empty-array check
parse_array_no_shortcut(toks, pos, steps) ==
    LET open == consume(toks, pos, steps) IN
    IF ~open.ok THEN open
    ELSE parse_array_loop(toks, open.pos, open.steps, <<>>)

parse_array(toks, pos, steps) ==
    LET open == consume(toks, pos, steps) IN
    IF ~open.ok THEN open
    ELSE LET p == peek(toks, open.pos, open.steps) IN
         IF ~p.ok THEN p
         ELSE IF p.val = BracketClose
         THEN LET c == consume(toks, open.pos, p.steps)
              IN  IF ~c.ok THEN c ELSE POk(JArray(<<>>), c.pos, c.steps)
         ELSE parse_array_loop(toks, open.pos, p.steps, <<>>)

\* parse_object, after a member: ',' continues the loop, '}' leaves it and
\* is consumed, anything else is an error
parse_object_next(toks, pos, steps, members) ==
    LET p == peek(toks, pos, steps) IN
    IF ~p.ok THEN p
    ELSE IF p.val = Comma
    THEN LET c == consume(toks, pos, p.steps)
         IN  IF ~c.ok THEN c ELSE parse_object_loop(toks, c.pos, c.steps, members)
    ELSE IF p.val = CurlyClose
    THEN LET c == consume(toks, pos, p.steps)
         IN  IF ~c.ok THEN c ELSE POk(JObject(members), c.pos, c.steps)
    ELSE PErr(MkErr(ErrObjectNext, p.val), pos, p.steps)

\* parse_object_key that takes any token for the key
parse_object_key_any(toks, pos, steps) ==
    LET k == consume(toks, pos, steps) IN
    IF ~k.ok THEN k
    ELSE LET p == peek(toks, k.pos, k.steps) IN
         IF ~p.ok THEN p
         ELSE IF p.val # Colon THEN PErr(MkErr(ErrColon, <<>>), k.pos, p.steps)
         ELSE LET c == consume(toks, k.pos, p.steps)
              IN  IF ~c.ok THEN c ELSE POk(k.val.v, c.pos, c.steps)

\* parse_object, the key and the colon of one member: on success val is the
\* key and pos is just after the colon
parse_object_key(toks, pos, steps) ==
    LET k == consume(toks, pos, steps) IN
    IF ~k.ok THEN k
    ELSE IF k.val.t # "String" THEN PErr(MkErr(ErrKey, <<>>), k.pos, k.steps)
    ELSE LET p == peek(toks, k.pos, k.steps) IN
         IF ~p.ok THEN p
         ELSE IF p.val # Colon THEN PErr(MkErr(ErrColon, <<>>), k.pos, p.steps)
         ELSE LET c == consume(toks, k.pos, p.steps)
              IN  IF ~c.ok THEN c ELSE POk(k.val.v, c.pos, c.steps)

\* the members kept as a map: a key seen before has its value overwritten
Insert(members, key, value) ==
    IF \E i \in 1..Len(members) : members[i][1] = key
    THEN [i \in 1..Len(members) |->
            IF members[i][1] = key THEN <<key, value>> ELSE members[i]]
    ELSE Append(members, <<key, value>>)

parse_object_loop_overwrite(toks, pos, steps, members) ==
    LET k == parse_object_key(toks, pos, steps) IN
    IF ~k.ok THEN k
    ELSE LET value == parse_value(toks, k.pos, k.steps)
         IN  IF ~value.ok THEN value
             ELSE parse_object_next(toks, value.pos, value.steps,
                                    Insert(members, k.val, value.val))

\* one iteration of the member loop of parse_object
parse_object_loop(toks, pos, steps, members) ==
    LET k == parse_object_key(toks, pos, steps) IN
    IF ~k.ok THEN k
    ELSE LET value == parse_value(toks, k.pos, k.steps)
         IN  IF ~value.ok THEN value
             ELSE parse_object_next(toks, value.pos, value.steps,
                                    Append(members, <<k.val, value.val>>))

parse_object(toks, pos, steps) ==
    LET open == consume(toks, pos, steps) IN
    IF ~open.ok THEN open
    ELSE LET p == peek(toks, open.pos, open.steps) IN
         IF ~p.ok THEN p
         ELSE IF p.val = CurlyClose
         THEN LET c == consume(toks, open.pos, p.steps)
              IN  IF ~c.ok THEN c ELSE POk(JObject(<<>>), c.pos, c.steps)
         ELSE parse_object_loop(toks, open.pos, p.steps, <<>>)

\* parse_json without the check for remaining tokens
parse_json_tokens_no_trailing(toks) ==
    IF toks = <<>> THEN PErr(MkErr(ErrEmpty, <<>>), 0, 0)
    ELSE parse_value(toks, 0, 0)

\* parse_json without the check for an empty token sequence
parse_json_tokens_no_empty(toks) ==
    LET r == parse_value(toks, 0, 0) IN
    IF ~r.ok THEN r
    ELSE IF r.pos < Len(toks)
    THEN PErr(MkErr(ErrTrailing, SubSeq(toks, r.pos + 1, Len(toks))), r.pos, r.steps)
    ELSE r

\* Parser::parse_json.  toks is what tokenize returned (empty when it
\* failed) so that the local Parser can be inspected with the result.
parse_json_tokens(toks) ==
    IF toks = <<>> THEN PErr(MkErr(ErrEmpty, <<>>), 0, 0)
    ELSE LET r == parse_value(toks, 0, 0) IN
         IF ~r.ok THEN r
         ELSE IF r.pos < Len(toks)
         THEN PErr(MkErr(ErrTrailing, SubSeq(toks, r.pos + 1, Len(toks))), r.pos, r.steps)
         ELSE r

parse_json(text) ==
    LET t == tokenize(text)
    IN  IF ~t.ok THEN PErr(t.err, 0, 0) ELSE parse_json_tokens(t.val)

----------------------------------------------------------------------------
(* FromJsonValue.  A target type is [k |-> kind, of |-> inner type]; the   *)
(* converted value of a String is its text, of an f64 the number, of a     *)
(* bool the boolean, of an Option [some, val] and of a Vec a sequence.     *)

NoType        == [k |-> "none",   of |-> <<>>]
TyString      == [k |-> "String", of |-> <<>>]
TyF64         == [k |-> "f64",    of |-> <<>>]
TyBool        == [k |-> "bool",   of |-> <<>>]
TyOption(ty)  == [k |-> "Option", of |-> ty]
TyVec(ty)     == [k |-> "Vec",    of |-> ty]

ErrExpectedString  == "Expected string, found "
ErrExpectedNumber  == "Expected number, found "
ErrExpectedBoolean == "Expected boolean, found "
ErrExpectedArray   == "Expected array, found "

COk(val)  == [ok |-> TRUE,  val |-> val,  err |-> MkErr("", <<>>)]
CErr(err) == [ok |-> FALSE, val |-> <<>>, err |-> err]

None      == [some |-> FALSE, val |-> <<>>]
Some(val) == [some |-> TRUE,  val |-> val]

RECURSIVE from_json_value(_, _)
RECURSIVE from_json_value_items(_, _, _, _)

\* a loop that leaves out the elements that do not convert
from_json_value_items_skip(ty, arr, i, out) ==
    IF i > Len(arr) THEN COk(out)
    ELSE LET r == from_json_value(ty, arr[i])
         IN  IF ~r.ok THEN from_json_value_items(ty, arr, i + 1, out)
             ELSE from_json_value_items(ty, arr, i + 1, Append(out, r.val))

\* the for loop of Vec<T>::from_json_value: `?` returns the first error
from_json_value_items(ty, arr, i, out) ==
    IF i > Len(arr) THEN COk(out)
    ELSE LET r == from_json_value(ty, arr[i])
         IN  IF ~r.ok THEN r
             ELSE from_json_value_items(ty, arr, i + 1, Append(out, r.val))

\* an Option<T> that takes a value T rejects for an absent one
from_json_value_option_lenient(ty, value) ==
    CASE ty.k = "String" ->
            IF value.t = "String" THEN COk(value.v)
            ELSE CErr(MkErr(ErrExpectedString, value))
      [] ty.k = "f64" ->
            IF value.t = "Number" THEN COk(value.v)
            ELSE CErr(MkErr(ErrExpectedNumber, value))
      [] ty.k = "bool" ->
            IF value.t = "Boolean" THEN COk(value.v)
            ELSE CErr(MkErr(ErrExpectedBoolean, value))
      [] ty.k = "Option" ->
            IF value.t = "Null" THEN COk(None)
            ELSE LET r == from_json_value(ty.of, value)
                 IN  IF ~r.ok THEN COk(None) ELSE COk(Some(r.val))
      [] ty.k = "Vec" ->
            IF value.t = "Array"
            THEN from_json_value_items(ty.of, value.v, 1, <<>>)
            ELSE CErr(MkErr(ErrExpectedArray, value))

from_json_value(ty, value) ==
    CASE ty.k = "String" ->
            IF value.t = "String" THEN COk(value.v)
            ELSE CErr(MkErr(ErrExpectedString, value))
      [] ty.k = "f64" ->
            IF value.t = "Number" THEN COk(value.v)
            ELSE CErr(MkErr(ErrExpectedNumber, value))
      [] ty.k = "bool" ->
            IF value.t = "Boolean" THEN COk(value.v)
            ELSE CErr(MkErr(ErrExpectedBoolean, value))
      [] ty.k = "Option" ->
            IF value.t = "Null" THEN COk(None)
            ELSE LET r == from_json_value(ty.of, value)
                 IN  IF ~r.ok THEN r ELSE COk(Some(r.val))
      [] ty.k = "Vec" ->
            IF value.t = "Array"
            THEN from_json_value_items(ty.of, value.v, 1, <<>>)
            ELSE CErr(MkErr(ErrExpectedArray, value))

----------------------------------------------------------------------------
(* The code #[derive(Jsonable)] generates for a struct.  A struct type is  *)
(* the sequence of its fields [name, ty]; a struct value is the sequence   *)
(* of its field values in the same order.                                  *)

ErrParse    == "Failed to parse JSON: "
ErrNotObj   == "Expected a JSON object for struct "
ErrMissing  == "Missing required field "
ErrConvert  == "Failed to convert field "

Backspace == "\\x08"    \* stands for the character U+0008

\* str::replace(ch, rep), one pass from left to right
RECURSIVE Replace(_, _, _)
Replace(s, ch, rep) ==
    IF s = <<>> THEN <<>>
    ELSE (IF Head(s) = ch THEN rep ELSE <<Head(s)>>) \o Replace(Tail(s), ch, rep)

escape_json_string(s) ==
    LET s1 == Replace(s,  "\\", <<"\\", "\\">>)
        s2 == Replace(s1, "\"", <<"\\", "\"">>)
        s3 == Replace(s2, "\n", <<"\\", "n">>)
        s4 == Replace(s3, "\r", <<"\\", "r">>)
        s5 == Replace(s4, "\t", <<"\\", "t">>)
        s6 == Replace(s5, Backspace, <<"\\", "b">>)
    IN  Replace(s6, "\f", <<"\\", "f">>)

\* serialize_fields: the text of one field value
field_str(ty, value) ==
    CASE ty.k = "String" -> <<"\"">> \o escape_json_string(value) \o <<"\"">>
      [] ty.k = "f64"    -> f64_to_string(value)
      [] ty.k = "bool"   -> bool_to_string(value)

RECURSIVE JoinParts(_, _)
JoinParts(parts, i) ==
    IF i > Len(parts) THEN <<>>
    ELSE (IF i > 1 THEN <<",">> ELSE <<>>) \o parts[i] \o JoinParts(parts, i + 1)

into_json(fields, value) ==
    LET parts == [i \in 1..Len(fields) |->
                    <<"\"">> \o fields[i].name \o <<"\"", ":">>
                    \o field_str(fields[i].ty, value[i])]
    IN  <<"{">> \o JoinParts(parts, 1) \o <<"}">>

\* get_field_val that returns the last member with this key
get_field_val_last(members, key) ==
    LET hits == {i \in 1..Len(members) : members[i][1] = key}
    IN  IF hits = {} THEN CErr(MkErr(ErrMissing, key))
        ELSE COk(members[CHOOSE i \in hits : \A j \in hits : i >= j][2])

\* the closure get_field_val: the value of the first member with this key
get_field_val(members, key) ==
    LET hits == {i \in 1..Len(members) : members[i][1] = key}
    IN  IF hits = {} THEN CErr(MkErr(ErrMissing, key))
        ELSE COk(members[CHOOSE i \in hits : \A j \in hits : i <= j][2])

\* deserialize_fields: the fields are built in declaration order and the
\* first `?` that fails returns
RECURSIVE deserialize_fields(_, _, _, _)
deserialize_fields(fields, members, i, out) ==
    IF i > Len(fields) THEN COk(out)
    ELSE LET field_json == get_field_val(members, fields[i].name) IN
         IF ~field_json.ok THEN field_json
         ELSE LET c == from_json_value(fields[i].ty, field_json.val) IN
              IF ~c.ok THEN CErr(MkErr(ErrConvert, fields[i].name))
              ELSE deserialize_fields(fields, members, i + 1, Append(out, c.val))

from_json(fields, json_string) ==
    LET parsed == parse_json(json_string) IN
    IF ~parsed.ok THEN CErr(MkErr(ErrParse, parsed.err))
    ELSE IF parsed.val.t # "Object" THEN CErr(MkErr(ErrNotObj, <<>>))
    ELSE deserialize_fields(fields, parsed.val.v, 1, <<>>)

----------------------------------------------------------------------------
(* Inputs.  A Parser is built from a token sequence; the text given to     *)
(* parse_json is that sequence written out.  The sequences are every short *)
(* sequence over Alphabet, and every document of Docs written as tokens,   *)
(* whole, cut short, with one token dropped and with one token added.      *)

MaxTokens == 3      \* length of the exhaustively enumerated sequences
MaxWidth  == 2      \* elements of an array / members of an object in Docs

One == F64(1, 0)
Two == F64(2, 0)

Alphabet ==
    {CurlyOpen, CurlyClose, BracketOpen, BracketClose, Colon, Comma,
     TokString(<<"a">>), TokNumber(One), TokNull}

SeqsUpTo(S, n) == UNION {[1..k -> S] : k \in 0..n}

Keys    == {<<"a">>, <<"b">>}
Numbers == {JNumber(One), JNumber(Two)}
Leaves  == Numbers \cup {JString(<<"a">>)}

Arrays(S, n)  == {JArray(a)  : a \in SeqsUpTo(S, n)}
Objects(S, n) == {JObject(m) : m \in SeqsUpTo(Keys \X S, n)}

FlatDocs ==
    Arrays(Leaves, MaxWidth) \cup Objects(Numbers, MaxWidth) \cup Objects(Leaves, 1)

\* containers one level deeper, and the nested document
\* {"a":[1,2,{"b":true}]}
NestedDocs ==
    LET inner == Arrays(Leaves, 1) \cup Objects(Leaves, 1)
    IN  Arrays(inner, 1) \cup Objects(inner, 1)
        \cup {JObject(<< <<<<"a">>, JArray(<<JNumber(One), JNumber(Two),
                     JObject(<< <<<<"b">>, JBoolean(TRUE)>> >>)>>)>> >>)}

Docs == Leaves \cup {JNull, JBoolean(FALSE)} \cup FlatDocs \cup NestedDocs

RECURSIVE TokensOf(_)
RECURSIVE TokensOfElements(_, _)
RECURSIVE TokensOfMembers(_, _)

TokensOfElements(a, i) ==
    IF i > Len(a) THEN <<>>
    ELSE (IF i > 1 THEN <<Comma>> ELSE <<>>)
         \o TokensOf(a[i]) \o TokensOfElements(a, i + 1)

TokensOfMembers(m, i) ==
    IF i > Len(m) THEN <<>>
    ELSE (IF i > 1 THEN <<Comma>> ELSE <<>>)
         \o <<TokString(m[i][1]), Colon>> \o TokensOf(m[i][2])
         \o TokensOfMembers(m, i + 1)

\* the token sequence that spells a JsonValue
TokensOf(value) ==
    CASE value.t = "Array"  -> <<BracketOpen>> \o TokensOfElements(value.v, 1) \o <<BracketClose>>
      [] value.t = "Object" -> <<CurlyOpen>> \o TokensOfMembers(value.v, 1) \o <<CurlyClose>>
      [] OTHER              -> <<value>>

Without(s, i) == SubSeq(s, 1, i - 1) \o SubSeq(s, i + 1, Len(s))

Variants(s) ==
    {SubSeq(s, 1, k) : k \in 0..Len(s)}
    \cup {Without(s, i) : i \in 1..Len(s)}
    \cup {Append(s, tok) : tok \in Alphabet}
    \cup {Append(SubSeq(s, 1, Len(s) - 1), tok) : tok \in Alphabet}

TokenInputs ==
    SeqsUpTo(Alphabet, MaxTokens) \cup UNION {Variants(TokensOf(d)) : d \in Docs}

\* the characters that spell a token
Lexeme(tok) ==
    CASE tok.t = "CurlyOpen"    -> <<"{">>
      [] tok.t = "CurlyClose"   -> <<"}">>
      [] tok.t = "BracketOpen"  -> <<"[">>
      [] tok.t = "BracketClose" -> <<"]">>
      [] tok.t = "Colon"        -> <<":">>
      [] tok.t = "Comma"        -> <<",">>
      [] tok.t = "String"       -> <<"\"">> \o tok.v \o <<"\"">>
      [] tok.t = "Number"       -> f64_to_string(tok.v)
      [] tok.t = "Boolean"      -> bool_to_string(tok.v)
      [] tok.t = "Null"         -> <<"n", "u", "l", "l">>

\* the text of a token sequence, with sep between the tokens and around them
RECURSIVE TextOf(_, _)
TextOf(toks, sep) ==
    IF toks = <<>> THEN sep
    ELSE sep \o Lexeme(Head(toks)) \o TextOf(Tail(toks), sep)

\* every sequence is written with blanks; the short ones also without, where
\* adjacent literals run together
Texts(toks) ==
    {TextOf(toks, <<" ">>)}
    \cup (IF Len(toks) <= MaxTokens THEN {TextOf(toks, <<>>)} ELSE {})

----------------------------------------------------------------------------
(* The state machine: a Parser over `tokens` driven through its public     *)
(* methods, and parse_json applied to `input`.                             *)

NoResult == [op |-> "none", ty |-> <<>>, ok |-> TRUE, val |-> JNull, err |-> MkErr("", <<>>), steps |-> 0]

\* what a Parser method returned
Returned(op, r) == [op |-> op, ty |-> <<>>, ok |-> r.ok, val |-> r.val, err |-> r.err, steps |-> r.steps]

\* what from_json returned for the struct type ty
Converted(ty, r) == [op |-> "from_json", ty |-> ty, ok |-> r.ok, val |-> r.val, err |-> r.err, steps |-> 0]

NoRecord == [ty |-> <<>>, val |-> <<>>]

\* App::new(), and nothing converted or served yet
NoTarget  == [ty |-> NoType, value |-> JNull]
EmptyMap  == <<>>      \* HashMap::new(): a function with no key
NewApp    == [handlers |-> EmptyMap, middlewares |-> <<>>]
NoServed  == [req |-> <<>>, response |-> <<>>, calls |-> <<>>]
NoSocket  == [reads |-> <<>>, at |-> 0, end |-> "close", written |-> <<>>]

OthersIdle ==
    /\ target = NoTarget
    /\ app = NewApp
    /\ history = <<>>
    /\ served = NoServed
    /\ socket = NoSocket

Field(name, ty) == [name |-> name, ty |-> ty]

\* struct A { a: f64 }, struct AB { a: f64, b: f64 },
\* struct Profile { n: String, s: f64, b: bool }
StructA  == <<Field(<<"a">>, TyF64)>>
StructAB == <<Field(<<"a">>, TyF64), Field(<<"b">>, TyF64)>>
Profile  == <<Field(<<"n">>, TyString), Field(<<"s">>, TyF64), Field(<<"b">>, TyBool)>>

Structs == {StructA, StructAB, Profile}

Init ==
    \E toks \in TokenInputs :
        /\ input \in Texts(toks)
        \* Parser::new(tokens); the text written without blanks is for
        \* parse_json alone, and the Parser beside it holds no tokens
        /\ tokens = IF input = TextOf(toks, <<" ">>) THEN toks ELSE <<>>
        /\ position = 0
        /\ record = NoRecord
        /\ result = NoResult
        /\ OthersIdle

Peek ==
    LET r == peek(tokens, position, 0) IN
    /\ result' = Returned("peek", r)
    /\ position' = r.pos
    /\ UNCHANGED <<input, tokens, record>>
    /\ UNCHANGED others

Consume ==
    LET r == consume(tokens, position, 0) IN
    /\ result' = Returned("consume", r)
    /\ position' = r.pos
    /\ UNCHANGED <<input, tokens, record>>
    /\ UNCHANGED others

ParseValue ==
    LET r == parse_value(tokens, position, 0) IN
    /\ result' = Returned("parse_value", r)
    /\ position' = r.pos
    /\ UNCHANGED <<input, tokens, record>>
    /\ UNCHANGED others

ParseArray ==
    LET r == parse_array(tokens, position, 0) IN
    /\ result' = Returned("parse_array", r)
    /\ position' = r.pos
    /\ UNCHANGED <<input, tokens, record>>
    /\ UNCHANGED others

ParseObject ==
    LET r == parse_object(tokens, position, 0) IN
    /\ result' = Returned("parse_object", r)
    /\ position' = r.pos
    /\ UNCHANGED <<input, tokens, record>>
    /\ UNCHANGED others

\* parse_json works on a Parser of its own
ParseJson ==
    /\ result' = Returned("parse_json", parse_json(input))
    /\ UNCHANGED <<input, tokens, position, record>>
    /\ UNCHANGED others

\* T::from_json(input) for a struct T that derives Jsonable
FromJson ==
    \E ty \in Structs :
        /\ result' = Converted(ty, from_json(ty, input))
        /\ UNCHANGED <<input, tokens, position, record>>
        /\ UNCHANGED others

Next ==
    \/ Peek
    \/ Consume
    \/ ParseValue
    \/ ParseArray
    \/ ParseObject
    \/ ParseJson

Spec == Init /\ [][Next]_vars

\* the derived from_json on the same texts
NextDerive == FromJson

SpecDerive == Init /\ [][NextDerive]_vars

----------------------------------------------------------------------------
(* Round trip of a struct value: into_json, then from_json of its text.    *)

MaxStrLen == 2      \* length of the String field

StrAlphabet == {"a", "\"", "\\", "\n"}

Scores == {F64(0, 0), F64(1, 0), F64(0 - 1, 0), F64(15, 1), F64(0 - 25, 2)}

Profiles == SeqsUpTo(StrAlphabet, MaxStrLen) \X Scores \X BOOLEAN

InitRecord ==
    /\ record \in {[ty |-> Profile, val |-> p] : p \in Profiles}
    /\ input = <<>>
    /\ tokens = <<>>
    /\ position = 0
    /\ result = NoResult
    /\ OthersIdle

IntoJson ==
    /\ record # NoRecord
    /\ input' = into_json(record.ty, record.val)
    /\ result' = [NoResult EXCEPT !.op = "into_json", !.ty = record.ty]
    /\ UNCHANGED <<tokens, position, record>>
    /\ UNCHANGED others

\* from_json of the text into_json wrote, as the type of the value
FromJsonRecord ==
    /\ result.op = "into_json"
    /\ result' = Converted(record.ty, from_json(record.ty, input))
    /\ UNCHANGED <<input, tokens, position, record>>
    /\ UNCHANGED others

NextRecord == IntoJson \/ FromJsonRecord

SpecRecord == InitRecord /\ [][NextRecord]_vars

----------------------------------------------------------------------------
(* Properties of Parser and parse_json                                     *)

\* the tokens of the text, empty when tokenize fails
Tokenized == LET t == tokenize(input) IN IF t.ok THEN t.val ELSE <<>>

IsProperPrefix(p, s) == Len(p) < Len(s) /\ p = SubSeq(s, 1, Len(p))

StartsWith(toks, pos, stem) ==
    /\ pos + Len(stem) <= Len(toks)
    /\ SubSeq(toks, pos + 1, pos + Len(stem)) = stem

Front(s) == SubSeq(s, 1, Len(s) - 1)

\* C1: when parsing one value from the tokens of the text succeeds and leaves
\* at least one token, parse_json fails with the trailing-tokens error.
C1_TrailingTokensRejected ==
    (/\ result.op = "parse_json"
     /\ LET t == Tokenized
            r == parse_value(t, 0, 0)
        IN  t # <<>> /\ r.ok /\ r.pos < Len(t))
    => (~result.ok /\ result.err.msg = ErrTrailing)

\* "1 1": two number tokens, the second one left over
C1_Witness ==
    /\ result.op = "parse_json"
    /\ Tokenized = <<TokNumber(One), TokNumber(One)>>
    /\ ~result.ok
    /\ result.err = MkErr(ErrTrailing, <<TokNumber(One)>>)

\* C2: whatever Parser methods are called, and whether they fail or not, the
\* cursor stays within 0..tokens.len() and never decreases.
C2_CursorMonotoneInRange ==
    /\ [](position \in 0..Len(tokens))
    /\ [][position' >= position]_vars

\* a failed parse_array that has moved the cursor to the end of the tokens
C2_Witness ==
    /\ result.op = "parse_array"
    /\ ~result.ok
    /\ position = Len(tokens)
    /\ position >= 2

\* the token sequences of the inputs that parse_json accepts
AcceptedInputs ==
    UNION {IF parse_json_tokens(toks).ok THEN {toks} ELSE {} : toks \in TokenInputs}

\* C3: parse_json of a text whose tokens are a non-empty proper prefix of an
\* accepted token sequence fails with "Unexpected end of input".
C3_PrefixFailsWithEndOfInput ==
    (/\ result.op = "parse_json"
     /\ LET t == Tokenized
        IN  t # <<>> /\ \E full \in AcceptedInputs : IsProperPrefix(t, full))
    => (~result.ok /\ result.err.msg = ErrEnd)

\* {"a":1 without the closing brace
C3_Witness ==
    /\ result.op = "parse_json"
    /\ Tokenized = <<CurlyOpen, TokString(<<"a">>), Colon, TokNumber(One)>>
    /\ ~result.ok
    /\ result.err.msg = ErrEnd

\* the non-empty containers of Docs
Containers == {c \in Docs : c.t \in {"Array", "Object"} /\ c.v # <<>>}

\* the tokens of a container up to, and without, its closer
StemOf(d) == Front(TokensOf(d))

ContainerStems == {StemOf(d) : d \in Containers}

\* the container a stem belongs to
ContainerOf == [stem \in ContainerStems |-> CHOOSE d \in Containers : StemOf(d) = stem]

Closer(d)  == IF d.t = "Array" THEN BracketClose ELSE CurlyClose
MethodOf(d) == IF d.t = "Array" THEN "parse_array" ELSE "parse_object"
ErrNext(d) == IF d.t = "Array" THEN ErrArrayNext ELSE ErrObjectNext

\* C4: when parse_array (parse_object) has read the elements (members) of a
\* container and a token follows, then the closer is consumed and ends the
\* call with that container, a comma is consumed, and any other token fails
\* the call with the expected-comma-or-closer error, the cursor on that token.
C4_CommaOrCloserAfterElement ==
    [][result'.op \in {"parse_array", "parse_object"}
       => \A q \in (position + 1)..(Len(tokens) - 1) :
            LET stem == SubSeq(tokens, position + 1, q) IN
            (stem \in ContainerStems /\ result'.op = MethodOf(ContainerOf[stem]))
            => LET d == ContainerOf[stem] IN
               IF tokens[q + 1] = Closer(d)
               THEN result'.ok /\ result'.val = d /\ position' = q + 1
               ELSE IF tokens[q + 1] = Comma
               THEN position' >= q + 1
               ELSE /\ ~result'.ok
                    /\ result'.err = MkErr(ErrNext(d), tokens[q + 1])
                    /\ position' = q
      ]_vars

\* [1 1]: the second number where a comma or ']' must be
C4_Witness ==
    /\ result.op = "parse_array"
    /\ tokens = <<BracketOpen, TokNumber(One), TokNumber(One), BracketClose>>
    /\ ~result.ok
    /\ result.err = MkErr(ErrArrayNext, TokNumber(One))
    /\ position = 2

\* C5: parse_array on '[' ']' (parse_object on '{' '}') consumes the two
\* tokens in three steps (consume, peek, consume) and returns the empty Array
\* (Object); parse_json accepts "[]" and "{}".
C5_EmptyContainers ==
    /\ [][/\ (/\ result'.op = "parse_array"
              /\ StartsWith(tokens, position, <<BracketOpen, BracketClose>>))
             => (/\ result'.ok
                 /\ result'.val = JArray(<<>>)
                 /\ position' = position + 2
                 /\ result'.steps = 3)
          /\ (/\ result'.op = "parse_object"
              /\ StartsWith(tokens, position, <<CurlyOpen, CurlyClose>>))
             => (/\ result'.ok
                 /\ result'.val = JObject(<<>>)
                 /\ position' = position + 2
                 /\ result'.steps = 3)
         ]_vars
    /\ []((result.op = "parse_json" /\ Tokenized = <<BracketOpen, BracketClose>>)
             => (result.ok /\ result.val = JArray(<<>>)))
    /\ []((result.op = "parse_json" /\ Tokenized = <<CurlyOpen, CurlyClose>>)
             => (result.ok /\ result.val = JObject(<<>>)))

\* parse_object returned an empty Object from the middle of the tokens
C5_Witness ==
    /\ result.op = "parse_object"
    /\ result.ok
    /\ result.val = JObject(<<>>)
    /\ position > 2

\* C6: parse_json of an empty or all-whitespace text fails with "Empty input"
\* and without a single peek or consume.
C6_EmptyInput ==
    (/\ result.op = "parse_json"
     /\ \A i \in 1..Len(input) : is_whitespace(input[i]))
    => (~result.ok /\ result.err.msg = ErrEmpty /\ result.steps = 0)

C6_Witness ==
    /\ result.op = "parse_json"
    /\ input = <<" ">>
    /\ result.err.msg = ErrEmpty

\* the objects of Docs
ObjectDocs == {c \in Docs : c.t = "Object"}

\* the tokens of an object up to the place of its next key
KeyStemOf(d) ==
    IF d.v = <<>> THEN <<CurlyOpen>> ELSE Append(Front(TokensOf(d)), Comma)

KeyStems == {KeyStemOf(d) : d \in ObjectDocs}

ObjectOf == [stem \in KeyStems |-> CHOOSE d \in ObjectDocs : KeyStemOf(d) = stem]

\* C7: in every iteration of the member loop of parse_object, a token in key
\* position that is not a String fails with the string-key error, a String
\* followed by a token other than ':' fails with the colon error, both with
\* only the key token consumed; after String and ':' the value is parsed and
\* a successful call has the pair with this key at this place.
C7_KeyThenColonThenValue ==
    [][result'.op = "parse_object"
       => \A q \in (position + 1)..(Len(tokens) - 1) :
            LET stem == SubSeq(tokens, position + 1, q) IN
            (/\ stem \in KeyStems
             /\ ~(Len(stem) = 1 /\ tokens[q + 1] = CurlyClose))
            => LET members == ObjectOf[stem].v
                   n == Len(members)
               IN
               IF tokens[q + 1].t # "String"
               THEN ~result'.ok /\ result'.err.msg = ErrKey /\ position' = q + 1
               ELSE IF q + 1 < Len(tokens) /\ tokens[q + 2] # Colon
               THEN ~result'.ok /\ result'.err.msg = ErrColon /\ position' = q + 1
               ELSE IF q + 1 < Len(tokens)
               THEN /\ position' >= q + 2
                    /\ result'.ok => /\ Len(result'.val.v) > n
                                     /\ SubSeq(result'.val.v, 1, n) = members
                                     /\ result'.val.v[n + 1][1] = tokens[q + 1].v
               ELSE ~result'.ok /\ result'.err.msg = ErrEnd
      ]_vars

\* {"a":1,:2} : a colon where the second key must be
C7_Witness ==
    /\ result.op = "parse_object"
    /\ tokens = <<CurlyOpen, TokString(<<"a">>), Colon, TokNumber(One), Comma,
                  Colon, TokNumber(Two), CurlyClose>>
    /\ ~result.ok
    /\ result.err.msg = ErrKey
    /\ position = 6

\* C8: the tree parse_json returns, written out as tokens element by element
\* and pair by pair, is the token sequence of the text: same order, every
\* pair kept.
C8_OrderAndDuplicatesKept ==
    (result.op = "parse_json" /\ result.ok) => TokensOf(result.val) = Tokenized

\* {"a":1,"a":2}
C8_Witness ==
    /\ result.op = "parse_json"
    /\ result.ok
    /\ result.val = JObject(<< <<<<"a">>, JNumber(One)>>, <<<<"a">>, JNumber(Two)>> >>)

----------------------------------------------------------------------------
(* Properties of the derived from_json / into_json                         *)

\* the JsonValue variant a field type converts from
VariantOf(ty) ==
    CASE ty.k = "String" -> "String"
      [] ty.k = "f64"    -> "Number"
      [] ty.k = "bool"   -> "Boolean"

\* C9: from_json takes, for every field, the value of the first pair of the
\* object whose key is the field's name; the first field (in declaration
\* order) that cannot be filled decides the error: "Missing required field"
\* when no pair has its name, "Failed to convert field" when the first such
\* pair has a value of another type.
C9_FirstMatchLookup ==
    LET parsed == parse_json(input) IN
    (result.op = "from_json" /\ parsed.ok /\ parsed.val.t = "Object")
    => LET members == parsed.val.v
           fields  == result.ty
           Has(i)  == \E k \in 1..Len(members) : members[k][1] = fields[i].name
           First(i) ==
               members[CHOOSE k \in 1..Len(members) :
                          /\ members[k][1] = fields[i].name
                          /\ \A j \in 1..(k - 1) : members[j][1] # fields[i].name][2]
           Good(i) == Has(i) /\ First(i).t = VariantOf(fields[i].ty)
           bad     == {i \in 1..Len(fields) : ~Good(i)}
       IN  IF bad = {}
           THEN /\ result.ok
                /\ Len(result.val) = Len(fields)
                /\ \A i \in 1..Len(fields) : result.val[i] = First(i).v
           ELSE LET b == CHOOSE i \in bad : \A j \in bad : i <= j IN
                /\ ~result.ok
                /\ result.err =
                     MkErr(IF Has(b) THEN ErrConvert ELSE ErrMissing, fields[b].name)

\* struct A { a: f64 } from {"a":1,"a":2} has a = 1
C9_Witness ==
    /\ result.op = "from_json"
    /\ result.ty = StructA
    /\ Tokenized = <<CurlyOpen, TokString(<<"a">>), Colon, TokNumber(One), Comma,
                     TokString(<<"a">>), Colon, TokNumber(Two), CurlyClose>>
    /\ result.ok
    /\ result.val = <<One>>

\* C10: from_json of the text into_json wrote for a struct value succeeds
\* and returns the field values of that struct value.
C10_RoundTrip ==
    (result.op = "from_json" /\ record # NoRecord)
    => (result.ok /\ result.val = record.val)

----------------------------------------------------------------------------
(* The lexer on raw text: every text of at most MaxChars characters over   *)
(* an alphabet that holds a quote, a backslash, the characters of a        *)
(* number, the keyword null, white space and a character no token has.     *)

MaxChars == 4

LexAlphabet == {"\"", "\\", "a", "1", "-", ".", " ", "n", "u", "l"}

LexTexts == SeqsUpTo(LexAlphabet, MaxChars)

InitLex ==
    /\ input \in LexTexts
    /\ tokens = <<>>
    /\ position = 0
    /\ record = NoRecord
    /\ result = NoResult
    /\ OthersIdle

\* tokenize(&input): the tokens are the value returned
Tokenize ==
    LET r == tokenize(input) IN
    /\ result' = [op |-> "tokenize", ty |-> <<>>, ok |-> r.ok, val |-> r.val,
                  err |-> r.err, steps |-> 0]
    /\ UNCHANGED <<input, tokens, position, record>>
    /\ UNCHANGED others

NextLex == Tokenize \/ ParseJson

SpecLex == InitLex /\ [][NextLex]_vars

Quote == "\""

\* the strings whose escaped form is the body of the literal `input` is
Unescaped(text) ==
    IF Len(text) >= 2 /\ text[1] = Quote /\ text[Len(text)] = Quote
    THEN LET body == SubSeq(text, 2, Len(text) - 1)
         IN  {s \in SeqsUpTo(LexAlphabet, Len(body)) : escape_json_string(s) = body}
    ELSE {}

\* C11: tokenize decodes backslash escapes: the literal written for a
\* string s, with \" for each quote and \\ for each backslash of s, is one
\* String token whose text is s.
C11_EscapesDecoded ==
    result.op = "tokenize"
    => \A s \in Unescaped(input) : result.ok /\ result.val = <<TokString(s)>>

----------------------------------------------------------------------------
(* FromJsonValue on its own: a target type and a JsonValue, and one call   *)
(* of T::from_json_value.                                                  *)

MaxItems == 2

ConvLeaves == {JNull, JBoolean(TRUE), JNumber(One), JString(<<"a">>)}

ConvValues ==
    ConvLeaves
    \cup {JArray(a) : a \in SeqsUpTo(ConvLeaves, MaxItems)}
    \cup {JArray(<<JArray(a)>>) : a \in SeqsUpTo({JNumber(One), JNull}, 1)}
    \cup {JObject(<<>>)}

ConvTypes ==
    {TyString, TyF64, TyBool,
     TyOption(TyF64), TyOption(TyString), TyOption(TyVec(TyF64)),
     TyVec(TyF64), TyVec(TyString), TyVec(TyOption(TyF64)), TyVec(TyVec(TyF64))}

InitConvert ==
    /\ input = <<>>
    /\ tokens = <<>>
    /\ position = 0
    /\ record = NoRecord
    /\ result = NoResult
    /\ target \in [ty : ConvTypes, value : ConvValues]
    /\ app = NewApp
    /\ history = <<>>
    /\ served = NoServed
    /\ socket = NoSocket

\* T::from_json_value(&value)
Convert ==
    LET r == from_json_value(target.ty, target.value) IN
    /\ result' = [op |-> "from_json_value", ty |-> target.ty, ok |-> r.ok,
                  val |-> r.val, err |-> r.err, steps |-> 0]
    /\ UNCHANGED <<target, app, history, served, socket>>
    /\ UNCHANGED <<input, tokens, position, record>>

NextConvert == Convert

SpecConvert == InitConvert /\ [][NextConvert]_vars

\* the indices (from 1) of the elements of arr that T's conversion rejects
Failing(ty, arr) == {i \in 1..Len(arr) : ~from_json_value(ty, arr[i]).ok}

Lowest(S) == CHOOSE i \in S : \A j \in S : i <= j

\* the error spec section 4.3 names for a failed element
ArrayElementError(index, inner) ==
    MkErr("ArrayElementError", [index |-> index, inner |-> inner])

\* C12: the conversion of an Array with an element T rejects fails, and
\* its error reports the lowest index of such an element together with
\* the error of that element's conversion.
C12_FirstFailingIndexReported ==
    (/\ result.op = "from_json_value"
     /\ target.ty.k = "Vec"
     /\ target.value.t = "Array"
     /\ Failing(target.ty.of, target.value.v) # {})
    => LET i == Lowest(Failing(target.ty.of, target.value.v)) IN
       /\ ~result.ok
       /\ result.err =
            ArrayElementError(i - 1, from_json_value(target.ty.of, target.value.v[i]).err)

\* C13: Vec<T> converts exactly the Arrays all of whose elements T
\* converts; the result has the length of the array and its i-th item is
\* the conversion of the i-th element; a value that is no Array fails with
\* the "Expected array" type mismatch.
C13_VecElementWise ==
    (result.op = "from_json_value" /\ target.ty.k = "Vec")
    => LET value == target.value
           conv(i) == from_json_value(target.ty.of, value.v[i])
       IN  /\ result.ok <=> (value.t = "Array" /\ Failing(target.ty.of, value.v) = {})
           /\ result.ok =>
                /\ Len(result.val) = Len(value.v)
                /\ \A i \in 1..Len(value.v) : result.val[i] = conv(i).val
           /\ value.t # "Array" =>
                (~result.ok /\ result.err = MkErr(ErrExpectedArray, value))

\* [1, null] converts to the Vec<Option<f64>> [Some(1), None], and
\* String("a") to no Vec<f64>
C13_Witness ==
    /\ result.op = "from_json_value"
    /\ \/ /\ target.ty = TyVec(TyOption(TyF64))
          /\ target.value = JArray(<<JNumber(One), JNull>>)
          /\ result.ok
          /\ result.val = <<Some(One), None>>
       \/ /\ target.ty = TyVec(TyF64)
          /\ target.value = JString(<<"a">>)
          /\ ~result.ok

\* C14: Option<T> converts Null to None and nothing else to None; any
\* other value gives Some(t) when T converts it to t, and T's own error
\* when T rejects it.
C14_OptionNullOrInner ==
    (result.op = "from_json_value" /\ target.ty.k = "Option")
    => LET inner == from_json_value(target.ty.of, target.value) IN
       /\ target.value.t = "Null" => (result.ok /\ result.val = None)
       /\ (result.ok /\ result.val = None) => target.value.t = "Null"
       /\ (target.value.t # "Null" /\ inner.ok) =>
            (result.ok /\ result.val = Some(inner.val))
       /\ (target.value.t # "Null" /\ ~inner.ok) =>
            (~result.ok /\ result.err = inner.err)

\* String("a") as Option<f64> is the error of f64's conversion
C14_Witness ==
    /\ result.op = "from_json_value"
    /\ target.ty = TyOption(TyF64)
    /\ target.value = JString(<<"a">>)
    /\ ~result.ok
    /\ result.err = MkErr(ErrExpectedNumber, JString(<<"a">>))

----------------------------------------------------------------------------
(* The call stack of the parser.  parse_value calls parse_array or         *)
(* parse_object for an opening token, and these call parse_value for each  *)
(* element or member value; no call checks how deep it is.  StackFrames is *)
(* the number of nested calls of these three functions the thread's stack  *)
(* has room for; a call past it ends the process (Rust aborts on stack     *)
(* overflow, nothing is returned).                                         *)

StackFrames == 6
MaxNest     == 5

StackOverflow == "thread has overflowed its stack"

Max(a, b) == IF a >= b THEN a ELSE b

RECURSIVE frames_value(_, _)
RECURSIVE frames_array(_, _)
RECURSIVE frames_elements(_, _)
RECURSIVE frames_object(_, _)
RECURSIVE frames_members(_, _)

\* the deepest nesting of calls reached by parse_value at pos, itself counted
frames_value(toks, pos) ==
    LET p == peek(toks, pos, 0) IN
    IF ~p.ok THEN 1
    ELSE IF p.val = BracketOpen THEN 1 + frames_array(toks, pos)
    ELSE IF p.val = CurlyOpen THEN 1 + frames_object(toks, pos)
    ELSE 1

\* parse_array with the cursor on '[': the elements are parsed one level down
frames_array(toks, pos) ==
    LET p == peek(toks, pos + 1, 0) IN
    IF ~p.ok \/ p.val = BracketClose THEN 1
    ELSE 1 + frames_elements(toks, pos + 1)

\* the element loop from the element at pos on
frames_elements(toks, pos) ==
    LET here == frames_value(toks, pos)
        e    == parse_value(toks, pos, 0)
    IN  IF e.ok /\ peek(toks, e.pos, 0).ok /\ peek(toks, e.pos, 0).val = Comma
        THEN Max(here, frames_elements(toks, e.pos + 1))
        ELSE here

\* parse_object with the cursor on '{'
frames_object(toks, pos) ==
    LET p == peek(toks, pos + 1, 0) IN
    IF ~p.ok \/ p.val = CurlyClose THEN 1
    ELSE 1 + frames_members(toks, pos + 1)

\* the member loop from the key at pos on
frames_members(toks, pos) ==
    LET k == parse_object_key(toks, pos, 0) IN
    IF ~k.ok THEN 0
    ELSE LET here  == frames_value(toks, k.pos)
             value == parse_value(toks, k.pos, 0)
         IN  IF value.ok /\ peek(toks, value.pos, 0).ok
                         /\ peek(toks, value.pos, 0).val = Comma
             THEN Max(here, frames_members(toks, value.pos + 1))
             ELSE here

\* the frames parse_json(text) needs
frames_json(text) ==
    LET t == tokenize(text)
    IN  IF ~t.ok \/ t.val = <<>> THEN 0 ELSE frames_value(t.val, 0)

NestAlphabet == {"[", "]", "{", "}", ",", "1"}

Openers == {<<"[">>, <<"{", "\"", "a", "\"", ":">>}

RECURSIVE Flatten(_)
Flatten(ss) == IF ss = <<>> THEN <<>> ELSE Head(ss) \o Flatten(Tail(ss))

RECURSIVE ClosersOf(_)
ClosersOf(ss) ==
    IF ss = <<>> THEN <<>>
    ELSE ClosersOf(Tail(ss)) \o (IF Head(ss) = <<"[">> THEN <<"]">> ELSE <<"}">>)

\* every short text over NestAlphabet, and the nests of arrays and objects
\* around a number, whole and cut off after the last opener
NestTexts ==
    SeqsUpTo(NestAlphabet, MaxNest)
    \cup UNION {{Flatten(ss), Flatten(ss) \o <<"1">> \o ClosersOf(ss)}
                : ss \in SeqsUpTo(Openers, MaxNest)}

InitStack ==
    /\ input \in NestTexts
    /\ tokens = <<>>
    /\ position = 0
    /\ record = NoRecord
    /\ result = NoResult
    /\ OthersIdle

\* parse_json(&input) on a stack of StackFrames frames
ParseJsonOnStack ==
    /\ result' = IF frames_json(input) > StackFrames
                 THEN [op |-> "parse_json", ty |-> <<>>, ok |-> FALSE, val |-> JNull,
                       err |-> MkErr(StackOverflow, <<>>), steps |-> 0]
                 ELSE Returned("parse_json", parse_json(input))
    /\ UNCHANGED <<input, tokens, position, record>>
    /\ UNCHANGED others

NextStack == Tokenize \/ ParseJsonOnStack

SpecStack == InitStack /\ [][NextStack]_vars

\* the messages of the Err values tokenize and the Parser build
EngineErrors ==
    {ErrEnd, ErrEmpty, ErrToken, ErrArrayNext, ErrObjectNext, ErrKey, ErrColon,
     ErrTrailing, ErrNumber, ErrKeyword, ErrChar}

\* C15: every call of tokenize and of parse_json ends by returning Ok or
\* one of the engine's Err values; none ends the process.
C15_AlwaysReturns ==
    result.op \in {"tokenize", "parse_json"}
    => (result.ok \/ result.err.msg \in EngineErrors)

----------------------------------------------------------------------------
(* Error propagation in the Parser.                                        *)

Min(a, b) == IF a <= b THEN a ELSE b

ParseMethods == {"parse_value", "parse_array", "parse_object"}

\* the Parser method named op, called with the cursor at pos
Call(op, toks, pos) ==
    CASE op = "parse_value"  -> parse_value(toks, pos, 0)
      [] op = "parse_array"  -> parse_array(toks, pos, 0)
      [] op = "parse_object" -> parse_object(toks, pos, 0)

\* where the step that built the error left the cursor: no token after the
\* one the step looked at has been consumed
CursorAtFailure(toks, pos, err) ==
    CASE err.msg = ErrEnd ->
            pos = Len(toks)
      [] err.msg \in {ErrToken, ErrArrayNext, ErrObjectNext} ->
            pos < Len(toks) /\ toks[pos + 1] = err.arg
      [] err.msg = ErrKey ->
            pos >= 1 /\ toks[pos].t # "String"
      [] err.msg = ErrColon ->
            pos >= 1 /\ pos < Len(toks) /\ toks[pos].t = "String" /\ toks[pos + 1] # Colon
      [] OTHER -> FALSE

\* C16: the first step that fails ends the call.  A failed parse_value,
\* parse_array or parse_object returns no tree, leaves the cursor where the
\* failing step left it, and returns the same error after the same number
\* of steps when every token behind the one the step looked at is cut off;
\* a failed parse_json returns the error of tokenize without a Parser step,
\* or else the error of its parse_value unchanged.
C16_FirstErrorEndsCall ==
    /\ []((result.op = "parse_json" /\ ~result.ok) =>
            \A t \in {tokenize(input)} :
            /\ result.val = JNull
            /\ ~t.ok => (result.err = t.err /\ result.steps = 0)
            /\ (t.ok /\ t.val # <<>>) =>
                 \A r \in {parse_value(t.val, 0, 0)} :
                 /\ ~r.ok => (/\ result.err = r.err
                              /\ result.steps = r.steps
                              /\ CursorAtFailure(t.val, r.pos, r.err))
                 /\ r.ok  => (/\ result.err.msg = ErrTrailing
                              /\ result.steps = r.steps))
    /\ [][(result'.op \in ParseMethods /\ ~result'.ok) =>
            LET cut == SubSeq(tokens, 1, Min(position' + 1, Len(tokens))) IN
            /\ result'.val = JNull
            /\ CursorAtFailure(tokens, position', result'.err)
            /\ cut # tokens =>
                 Call(result'.op, cut, position) =
                   PErr(result'.err, position', result'.steps)]_vars

\* parse_value of [ : ... has failed on the colon with tokens still unread
C16_Witness ==
    /\ result.op = "parse_value"
    /\ ~result.ok
    /\ result.err = MkErr(ErrToken, Colon)
    /\ position = 1
    /\ tokens[1] = BracketOpen
    /\ Len(tokens) >= 3

\* C20: peek returns the token at the cursor and changes neither the cursor
\* nor the tokens; consume returns the token at the cursor and moves the
\* cursor forward by exactly one; each fails, with "Unexpected end of
\* input", exactly when the cursor is at or past the number of tokens, and
\* a failed call changes no state of the Parser.
C20_PeekAndConsume ==
    [][/\ result'.op = "peek" =>
            /\ position' = position
            /\ tokens' = tokens
            /\ result'.ok <=> position < Len(tokens)
            /\ result'.ok => result'.val = tokens[position + 1]
            /\ ~result'.ok => result'.err = MkErr(ErrEnd, <<>>)
       /\ result'.op = "consume" =>
            /\ tokens' = tokens
            /\ result'.ok <=> position < Len(tokens)
            /\ result'.ok =>
                 (result'.val = tokens[position + 1] /\ position' = position + 1)
            /\ ~result'.ok =>
                 (result'.err = MkErr(ErrEnd, <<>>) /\ position' = position)]_vars

\* consume has returned the second token or a later one, or has failed at
\* the end of a token sequence that is not empty
C20_Witness ==
    /\ result.op = "consume"
    /\ position >= 2
    /\ \/ result.ok /\ result.val = tokens[position]
       \/ ~result.ok /\ position = Len(tokens)

----------------------------------------------------------------------------
(* App.  handlers is a map from path to a map from method to handler,      *)
(* middlewares a vector.  A closure is known by the number of the          *)
(* registration call that boxed it; handler k answers every request with   *)
(* the body "h<k>" turned into a response, and each closure that runs is   *)
(* written to the calls of the request.                                    *)

MaxCalls == 3       \* registration calls made on the App

RoutePaths   == {<<"/">>, <<"/", "a">>}
RequestUris  == RoutePaths \cup {<<"/", "x">>}
Methods      == {"GET", "POST", "PUT", "DELETE", "PATCH"}

\* HashMap: insert, remove, contains_key
MapInsert(map, k, v) == [x \in DOMAIN map \cup {k} |-> IF x = k THEN v ELSE map[x]]
MapRemove(map, k)    == [x \in DOMAIN map \ {k} |-> map[x]]
ContainsKey(map, k)  == k \in DOMAIN map

StatusOk       == 200
StatusNotFound == 404

reason_phrase(status) ==
    CASE status = StatusOk       -> <<"O", "K">>
      [] status = StatusNotFound -> <<"N", "o", "t", " ", "F", "o", "u", "n", "d">>

\* HttpResponse::new(status, body)
HttpResponse(status, body) ==
    [version        |-> "HTTP/1.1",
     status         |-> status,
     status_message |-> reason_phrase(status),
     headers        |-> [x \in {"Content-Length"} |-> NatToString(Len(body))],
     body           |-> body]

NotFound == HttpResponse(StatusNotFound, <<"N", "o", "t", " ", "F", "o", "u", "n", "d">>)

\* what the k-th registered closure returns: its body .into_response()
HandlerResponse(k) == HttpResponse(StatusOk, <<"h">> \o NatToString(k))

MiddlewareCall(k) == [kind |-> "middleware", id |-> k]
HandlerCall(k)    == [kind |-> "handler",    id |-> k]

\* a registration that puts a fresh method map in the place of the path's
insert_handler_fresh_map(a, method, path, handler) ==
    [a EXCEPT !.handlers = MapInsert(@, path, MapInsert(EmptyMap, method, handler))]

\* the body get, post, put and delete share: entry(path).or_insert(..), the
\* removal of the method's old handler, and the insert
insert_handler(a, method, path, handler) ==
    LET method_map == IF ContainsKey(a.handlers, path) THEN a.handlers[path] ELSE EmptyMap
        removed    == IF ContainsKey(method_map, method)
                      THEN MapRemove(method_map, method) ELSE method_map
    IN  [a EXCEPT !.handlers = MapInsert(@, path, MapInsert(removed, method, handler))]

\* a lookup by URI that falls back on another method's handler
handle_request_any_method(a, req) ==
    LET mds == [i \in 1..Len(a.middlewares) |-> MiddlewareCall(a.middlewares[i])] IN
    IF ContainsKey(a.handlers, req.uri)
    THEN LET method_map == a.handlers[req.uri]
             h == IF ContainsKey(method_map, req.method) THEN method_map[req.method]
                  ELSE method_map[CHOOSE k \in DOMAIN method_map : TRUE]
         IN  [response |-> HandlerResponse(h), calls |-> Append(mds, HandlerCall(h))]
    ELSE [response |-> NotFound, calls |-> mds]

\* middlewares that run only for a request that has a handler
handle_request_middleware_on_match(a, req) ==
    LET mds == [i \in 1..Len(a.middlewares) |-> MiddlewareCall(a.middlewares[i])] IN
    IF ContainsKey(a.handlers, req.uri)
    THEN LET method_map == a.handlers[req.uri] IN
         IF ContainsKey(method_map, req.method)
         THEN [response |-> HandlerResponse(method_map[req.method]),
               calls    |-> Append(mds, HandlerCall(method_map[req.method]))]
         ELSE [response |-> NotFound, calls |-> <<>>]
    ELSE [response |-> NotFound, calls |-> <<>>]

\* handle_request: the middlewares in vector order, then the lookup
handle_request(a, req) ==
    LET mds == [i \in 1..Len(a.middlewares) |-> MiddlewareCall(a.middlewares[i])] IN
    IF ContainsKey(a.handlers, req.uri)
    THEN LET method_map == a.handlers[req.uri] IN
         IF ContainsKey(method_map, req.method)
         THEN [response |-> HandlerResponse(method_map[req.method]),
               calls    |-> Append(mds, HandlerCall(method_map[req.method]))]
         ELSE [response |-> NotFound, calls |-> mds]
    ELSE [response |-> NotFound, calls |-> mds]

InitApp ==
    /\ input = <<>>
    /\ tokens = <<>>
    /\ position = 0
    /\ record = NoRecord
    /\ result = NoResult
    /\ OthersIdle

Registration(op, method, path, id) == [op |-> op, method |-> method, path |-> path, id |-> id]

\* app.get(path, handler), and the same for post, put and delete
Route(op, method) ==
    /\ Len(history) < MaxCalls
    /\ \E path \in RoutePaths :
         LET id == Len(history) + 1 IN
         /\ app' = insert_handler(app, method, path, id)
         /\ history' = Append(history, Registration(op, method, path, id))
    /\ UNCHANGED <<target, served, socket>>
    /\ UNCHANGED jsonVars

Get    == Route("get", "GET")
Post   == Route("post", "POST")
Put    == Route("put", "PUT")
Delete == Route("delete", "DELETE")

\* app.use_middleware(md)
UseMiddleware ==
    /\ Len(history) < MaxCalls
    /\ LET id == Len(history) + 1 IN
       /\ app' = [app EXCEPT !.middlewares = Append(@, id)]
       /\ history' = Append(history, Registration("use_middleware", "", <<>>, id))
    /\ UNCHANGED <<target, served, socket>>
    /\ UNCHANGED jsonVars

\* app.handle_request(req)
HandleRequest ==
    /\ \E method \in Methods, uri \in RequestUris :
         LET req == [method |-> method, uri |-> uri]
             r   == handle_request(app, req)
         IN  served' = [req |-> req, response |-> r.response, calls |-> r.calls]
    /\ UNCHANGED <<target, app, history, socket>>
    /\ UNCHANGED jsonVars

NextApp ==
    \/ Get
    \/ Post
    \/ Put
    \/ Delete
    \/ UseMiddleware
    \/ HandleRequest

SpecApp == InitApp /\ [][NextApp]_vars

\* the registrations made so far for a method and a path, by their numbers
RegisteredFor(method, path) ==
    {i \in 1..Len(history) : history[i].method = method /\ history[i].path = path}

Latest(S) == CHOOSE i \in S : \A j \in S : j <= i

IsHandlerCall(c)    == c.kind = "handler"
IsMiddlewareCall(c) == c.kind = "middleware"
IsUseMiddleware(e)  == e.op = "use_middleware"

\* C17: handle_request answers a request whose URI and method have a
\* registered handler with the response of one such handler, which it calls
\* once; any other request (unknown URI, known URI without a handler for
\* the method, an App with no routes) gets status 404 with the body
\* "Not Found", and no handler is called.
C17_HandlerOrNotFound ==
    [][served' # served =>
         LET req      == served'.req
             regs     == RegisteredFor(req.method, req.uri)
             handlers == SelectSeq(served'.calls, IsHandlerCall)
         IN  IF regs # {}
             THEN \E i \in regs :
                    /\ served'.response = HandlerResponse(history[i].id)
                    /\ handlers = <<HandlerCall(history[i].id)>>
             ELSE /\ served'.response.status = StatusNotFound
                  /\ served'.response.body = <<"N", "o", "t", " ", "F", "o", "u", "n", "d">>
                  /\ handlers = <<>>]_vars

\* a request for a registered path with a method that has no handler there
\* was answered 404
C17_Witness ==
    /\ served # NoServed
    /\ served.response.status = StatusNotFound
    /\ ContainsKey(app.handlers, served.req.uri)
    /\ RegisteredFor(served.req.method, served.req.uri) = {}

\* the handler the App holds for a method and a path, 0 for none
Entry(a, method, path) ==
    IF ContainsKey(a.handlers, path) /\ ContainsKey(a.handlers[path], method)
    THEN a.handlers[path][method] ELSE 0

\* C18: the handler handle_request calls for a method and a path is the
\* one of the latest registration for exactly that pair, and none when the
\* pair was never registered; a registration changes the handler of no
\* other pair.
C18_LatestRegistrationWins ==
    /\ [](\A method \in Methods, path \in RequestUris :
            LET regs == RegisteredFor(method, path) IN
            Entry(app, method, path) = IF regs = {} THEN 0 ELSE history[Latest(regs)].id)
    /\ [][served' # served =>
            LET regs == RegisteredFor(served'.req.method, served'.req.uri) IN
            SelectSeq(served'.calls, IsHandlerCall) =
                IF regs = {} THEN <<>> ELSE <<HandlerCall(history[Latest(regs)].id)>>]_vars
    /\ [][history' # history =>
            LET new == history'[Len(history')] IN
            \A method \in Methods, path \in RequestUris :
               (method # new.method \/ path # new.path)
               => Entry(app', method, path) = Entry(app, method, path)]_vars

\* a pair registered twice, another method of the same path in between,
\* and a request for the pair answered by the second handler
C18_Witness ==
    /\ Len(history) = 3
    /\ history[1].method = history[3].method
    /\ history[1].path = history[3].path
    /\ history[2].path = history[1].path
    /\ history[2].method \notin {"", history[1].method}
    /\ served.req = [method |-> history[3].method, uri |-> history[3].path]
    /\ served.calls = <<HandlerCall(3)>>

\* C19: in every handle_request each registered middleware runs exactly
\* once, in the order of the use_middleware calls, and all of them run
\* before the handler, also when the answer is 404.
C19_MiddlewaresInOrderFirst ==
    [][served' # served =>
         LET used == SelectSeq(history, IsUseMiddleware)
             n    == Len(used)
             c    == served'.calls
         IN  /\ Len(c) >= n
             /\ \A i \in 1..n : c[i] = MiddlewareCall(used[i].id)
             /\ \A i \in (n + 1)..Len(c) : IsHandlerCall(c[i])]_vars

\* two middlewares ran, in order, for a request that got 404
C19_Witness ==
    /\ served.calls = <<MiddlewareCall(1), MiddlewareCall(2)>>
    /\ served.response.status = StatusNotFound

----------------------------------------------------------------------------
(* Number and string literals.                                             *)

IsDigits(s) == s # <<>> /\ \A i \in 1..Len(s) : is_ascii_digit(s[i])

\* number := '-'? digit+ ('.' digit+)?
MatchesNumber(s) ==
    LET body == IF s # <<>> /\ s[1] = "-" THEN SubSeq(s, 2, Len(s)) ELSE s
        dots == {i \in 1..Len(body) : body[i] = "."}
    IN  \/ IsDigits(body)
        \/ \E d \in dots :
             /\ IsDigits(SubSeq(body, 1, d - 1))
             /\ IsDigits(SubSeq(body, d + 1, Len(body)))

\* the input is one run of digits, '.' and '-' that opens a number literal
IsNumberRun(text) ==
    /\ text # <<>>
    /\ is_ascii_digit(text[1]) \/ text[1] = "-"
    /\ NumberEnd(text, 1) = Len(text) + 1

\* C21: a run of digits, '.' and '-' is a Number token exactly when it
\* matches '-'? digit+ ('.' digit+)?; any other run fails with
\* "Invalid number.".
C21_NumberGrammar ==
    (result.op = "tokenize" /\ IsNumberRun(input))
    => IF MatchesNumber(input)
       THEN result.ok /\ Len(result.val) = 1 /\ result.val[1].t = "Number"
       ELSE ~result.ok /\ result.err = MkErr(ErrNumber, <<>>)

\* the input ends inside a string literal: tokenize passes an opening quote
\* and finds no closing one
RECURSIVE EndsInsideString(_, _)
EndsInsideString(text, i) ==
    IF i > Len(text) THEN FALSE
    ELSE IF text[i] = Quote
    THEN LET close == StringEnd(text, i + 1)
         IN  IF close > Len(text) THEN TRUE ELSE EndsInsideString(text, close + 1)
    ELSE EndsInsideString(text, i + 1)

\* C22: tokenize returns an error, and no String token, for an input that
\* ends inside a string literal.
C22_UnterminatedStringFails ==
    (result.op = "tokenize" /\ EndsInsideString(input, 1)) => ~result.ok

----------------------------------------------------------------------------
(* Termination.  steps counts the calls of peek and consume of one call.   *)

\* C23: tokenize pushes at most one token for each character it consumes,
\* a successful parse_value, parse_array or parse_object consumes at least
\* one token, and the peek and consume calls of a Parser method, and of
\* parse_json, number at most three for each token consumed plus two.
C23_LinearSteps ==
    /\ [](result.op = "parse_json" =>
            \A t \in {tokenize(input)} :
               /\ Len(t.val) <= Len(input)
               /\ result.steps <= 3 * Len(t.val) + 2)
    /\ [][result'.op \in ParseMethods =>
            /\ result'.ok => position' > position
            /\ result'.steps <= 3 * (position' - position) + 2]_vars

\* parse_json has read an array of two elements or more to its end
C23_Witness ==
    /\ result.op = "parse_json"
    /\ result.ok
    /\ result.val.t = "Array"
    /\ Len(result.val.v) >= 2
    /\ result.steps >= 2 * Len(Tokenized)

----------------------------------------------------------------------------
(* HttpRequest::parse and App::get_content_length on the text of a request *)
(* head.  Text is a sequence of characters; a byte of the socket is a      *)
(* character (the requests are ASCII).                                     *)

SP == " "
CR == "\r"
LF == "\n"

Upper == <<"A", "B", "C", "D", "E", "F", "G", "H", "I", "J", "K", "L", "M",
           "N", "O", "P", "Q", "R", "S", "T", "U", "V", "W", "X", "Y", "Z">>
Lower == <<"a", "b", "c", "d", "e", "f", "g", "h", "i", "j", "k", "l", "m",
           "n", "o", "p", "q", "r", "s", "t", "u", "v", "w", "x", "y", "z">>

\* str::to_lowercase
to_lowercase(s) ==
    [i \in 1..Len(s) |->
        IF \E k \in 1..26 : Upper[k] = s[i]
        THEN Lower[CHOOSE k \in 1..26 : Upper[k] = s[i]]
        ELSE s[i]]

\* str::find(ch): the index (from 1) of the first ch, 0 for None
find(s, ch) ==
    IF \E i \in 1..Len(s) : s[i] = ch
    THEN CHOOSE i \in 1..Len(s) : s[i] = ch /\ \A j \in 1..(i - 1) : s[j] # ch
    ELSE 0

starts_with(s, prefix) ==
    Len(prefix) <= Len(s) /\ SubSeq(s, 1, Len(prefix)) = prefix

\* str::trim
trim(s) ==
    LET keep == {i \in 1..Len(s) : ~is_whitespace(s[i])}
    IN  IF keep = {} THEN <<>>
        ELSE SubSeq(s, CHOOSE i \in keep : \A j \in keep : i <= j,
                       CHOOSE i \in keep : \A j \in keep : j <= i)

\* str::trim_end_matches(|c| c == CR || c == LF)
RECURSIVE trim_end_crlf(_)
trim_end_crlf(s) ==
    IF s # <<>> /\ s[Len(s)] \in {CR, LF} THEN trim_end_crlf(SubSeq(s, 1, Len(s) - 1))
    ELSE s

\* str::lines: the text is cut after each LF, and a line loses its LF and
\* a CR before it
RECURSIVE lines(_)
lines(text) ==
    IF text = <<>> THEN <<>>
    ELSE LET nl == find(text, LF) IN
         IF nl = 0 THEN <<text>>
         ELSE LET line == SubSeq(text, 1, nl - 1)
                  bare == IF line # <<>> /\ line[Len(line)] = CR
                          THEN SubSeq(line, 1, Len(line) - 1) ELSE line
              IN  <<bare>> \o lines(SubSeq(text, nl + 1, Len(text)))

\* str::split(SP)
RECURSIVE split(_, _)
split(s, ch) ==
    LET at == find(s, ch) IN
    IF at = 0 THEN <<s>>
    ELSE <<SubSeq(s, 1, at - 1)>> \o split(SubSeq(s, at + 1, Len(s)), ch)

\* str::parse::<usize>: an optional '+' and one digit or more
parse_usize(s) ==
    LET body == IF s # <<>> /\ s[1] = "+" THEN SubSeq(s, 2, Len(s)) ELSE s
    IN  IF body # <<>> /\ \A i \in 1..Len(body) : is_ascii_digit(body[i])
        THEN [ok |-> TRUE, val |-> DigitsValue(body)]
        ELSE [ok |-> FALSE, val |-> 0]

MethodNames ==
    {<<"G", "E", "T">>, <<"P", "O", "S", "T">>, <<"P", "U", "T">>,
     <<"D", "E", "L", "E", "T", "E">>, <<"O", "P", "T", "I", "O", "N", "S">>,
     <<"H", "E", "A", "D">>, <<"P", "A", "T", "C", "H">>}

Versions ==
    {<<"H", "T", "T", "P", "/", "1", ".", "0">>, <<"H", "T", "T", "P", "/", "1", ".", "1">>}

\* the String of a method as the key the method maps of App use
MethodKey(s) ==
    CASE s = <<"G", "E", "T">>                     -> "GET"
      [] s = <<"P", "O", "S", "T">>                -> "POST"
      [] s = <<"P", "U", "T">>                     -> "PUT"
      [] s = <<"D", "E", "L", "E", "T", "E">>      -> "DELETE"
      [] s = <<"O", "P", "T", "I", "O", "N", "S">> -> "OPTIONS"
      [] s = <<"H", "E", "A", "D">>                -> "HEAD"
      [] s = <<"P", "A", "T", "C", "H">>           -> "PATCH"

is_control(ch) == ch \in {CR, LF, "\t", "\f", Backspace}

is_valid_uri(uri) ==
    /\ starts_with(uri, <<"/">>)
    /\ \A i \in 1..Len(uri) : ~is_control(uri[i])

HOk(val)  == [ok |-> TRUE,  val |-> val,  err |-> ""]
HErr(err) == [ok |-> FALSE, val |-> <<>>, err |-> err]

parse_request_line(line) ==
    LET parts   == split(line, SP)
        version == trim_end_crlf(parts[3])
    IN  IF Len(parts) < 3 THEN HErr("MalformedRequest")
        ELSE IF parts[1] \notin MethodNames THEN HErr("InvalidMethod")
        ELSE IF version \notin Versions THEN HErr("InvalidVersion")
        ELSE IF ~is_valid_uri(parts[2]) THEN HErr("InvalidUri")
        ELSE HOk([method |-> parts[1], uri |-> parts[2], version |-> version])

\* the header loop of parse from line i on: the map of the lines up to the
\* first empty one, a later line of a name replacing an earlier one
RECURSIVE parse_headers(_, _, _)
parse_headers(ls, i, headers) ==
    IF i > Len(ls) \/ ls[i] = <<>> THEN HOk([headers |-> headers, next |-> i + 1])
    ELSE LET colon_pos == find(ls[i], ":") IN
         IF colon_pos = 0 THEN HErr("MalformedRequest")
         ELSE LET header_name  == trim(SubSeq(ls[i], 1, colon_pos - 1))
                  header_value == trim(SubSeq(ls[i], colon_pos + 1, Len(ls[i])))
              IN  parse_headers(ls, i + 1, MapInsert(headers, header_name, header_value))

ContentLengthName ==
    <<"C", "o", "n", "t", "e", "n", "t", "-", "L", "e", "n", "g", "t", "h">>

\* Vec<&str>::join("\n")
RECURSIVE join_lines(_)
join_lines(ls) ==
    IF ls = <<>> THEN <<>>
    ELSE IF Len(ls) = 1 THEN ls[1]
    ELSE ls[1] \o <<LF>> \o join_lines(Tail(ls))

\* HttpRequest::parse(input)
http_parse(text) ==
    LET ls == lines(text) IN
    IF ls = <<>> THEN HErr("MalformedRequest")
    ELSE LET rl == parse_request_line(ls[1]) IN
         IF ~rl.ok THEN rl
         ELSE LET hs == parse_headers(ls, 2, EmptyMap) IN
              IF ~hs.ok THEN hs
              ELSE LET headers == hs.val.headers
                       declared == IF ContainsKey(headers, ContentLengthName)
                                   THEN parse_usize(headers[ContentLengthName])
                                   ELSE [ok |-> FALSE, val |-> 0]
                   IN  HOk([method         |-> MethodKey(rl.val.method),
                            uri            |-> rl.val.uri,
                            version        |-> rl.val.version,
                            headers        |-> headers,
                            content_length |-> IF declared.ok THEN declared.val ELSE 0,
                            body           |-> join_lines(SubSeq(ls, hs.val.next, Len(ls)))])

ContentLengthPrefix ==
    <<"c", "o", "n", "t", "e", "n", "t", "-", "l", "e", "n", "g", "t", "h", ":">>

\* App::get_content_length(headers): the first line that starts with
\* "content-length:" in lower case decides
RECURSIVE get_content_length_from(_, _)
get_content_length_from(ls, i) ==
    IF i > Len(ls) THEN 0
    ELSE IF starts_with(to_lowercase(ls[i]), ContentLengthPrefix)
    THEN LET n == parse_usize(trim(SubSeq(ls[i], 16, Len(ls[i]))))
         IN  IF n.ok THEN n.val ELSE 0
    ELSE get_content_length_from(ls, i + 1)

get_content_length(headers) == get_content_length_from(lines(headers), 1)

----------------------------------------------------------------------------
(* App::process on one connection.  socket.reads are the chunks the reads  *)
(* of the socket return one after the other, socket.at counts the reads    *)
(* made, and once the chunks are used up a read returns Ok(0) (the peer    *)
(* has closed, end = "close") or Err (end = "error").                      *)

MaxRequestSize == 8192

CRLF == <<CR, LF>>

\* find_headers_end: Some(i) for the first i, from 0, with CR LF CR LF at
\* i..i+3, as i + 1; None as 0
find_headers_end(data) ==
    LET hits == {i \in 1..(Len(data) - 3) : SubSeq(data, i, i + 3) = CRLF \o CRLF}
    IN  IF hits = {} THEN 0 ELSE CHOOSE i \in hits : \A j \in hits : i <= j

\* HttpResponse::to_string
response_to_string(response) ==
    <<"H", "T", "T", "P", "/", "1", ".", "1">> \o <<SP>>
    \o NatToString(response.status) \o <<SP>> \o response.status_message \o CRLF
    \o ContentLengthName \o <<":", SP>> \o response.headers["Content-Length"] \o CRLF
    \o CRLF \o response.body

\* process returned without a request: nothing handled, nothing written
Dropped(at) ==
    [handled |-> FALSE, at |-> at, req |-> <<>>, content_length |-> 0,
     response |-> <<>>, calls |-> <<>>, written |-> <<>>]

\* the loop that reads the body: at reads made, bytes_to_read still wanted
RECURSIVE read_body(_, _, _, _)
read_body(sock, at, body, bytes_to_read) ==
    IF bytes_to_read = 0 THEN [ok |-> TRUE, at |-> at, body |-> body]
    ELSE IF at >= Len(sock.reads)
    THEN IF sock.end = "close"
         THEN [ok |-> TRUE,  at |-> at + 1, body |-> body]     \* Ok(0): break
         ELSE [ok |-> FALSE, at |-> at + 1, body |-> body]     \* Err: return
    ELSE LET chunk   == sock.reads[at + 1]
             to_copy == Min(Len(chunk), bytes_to_read)
         IN  read_body(sock, at + 1, body \o SubSeq(chunk, 1, to_copy),
                       bytes_to_read - to_copy)

\* process from the parsed head on
handle_head(a, sock, at, request_data, headers_end) ==
    LET headers_str == SubSeq(request_data, 1, headers_end)
        parsed      == http_parse(headers_str)
    IN  IF ~parsed.ok THEN Dropped(at)
        ELSE
          LET content_length  == get_content_length(headers_str)
              remaining_bytes == Len(request_data) - headers_end
              already         == SubSeq(request_data, headers_end + 1, Len(request_data))
              wanted          == IF content_length >= remaining_bytes
                                 THEN content_length - remaining_bytes ELSE 0
              rb              == IF content_length > 0
                                 THEN read_body(sock, at, already, wanted)
                                 ELSE [ok |-> TRUE, at |-> at, body |-> parsed.val.body]
          IN  IF ~rb.ok THEN Dropped(rb.at)
              ELSE LET request == [parsed.val EXCEPT !.body = rb.body]
                       r       == handle_request(a, request)
                   IN  [handled |-> TRUE, at |-> rb.at, req |-> request,
                        content_length |-> content_length,
                        response |-> r.response, calls |-> r.calls,
                        written |-> response_to_string(r.response)]

\* the loop that reads the head: at reads made, request_data read so far
RECURSIVE read_headers(_, _, _, _)
read_headers(a, sock, at, request_data) ==
    IF at >= Len(sock.reads) THEN Dropped(at + 1)        \* Ok(0) or Err: return
    ELSE LET data == request_data \o sock.reads[at + 1]
             pos  == find_headers_end(data)
         IN  IF pos # 0 THEN handle_head(a, sock, at + 1, data, (pos - 1) + 4)
             ELSE IF Len(data) >= MaxRequestSize THEN Dropped(at + 1)
             ELSE read_headers(a, sock, at + 1, data)

process(a, sock) == read_headers(a, sock, 0, <<>>)

MaxBody == 2        \* the largest Content-Length declared
MaxCuts == 2        \* the places where the socket cuts the request into reads

RequestLine ==
    <<"P", "O", "S", "T", SP, "/", SP, "H", "T", "T", "P", "/", "1", ".", "1">>

HeaderNames == {ContentLengthName, to_lowercase(ContentLengthName)}

\* the heads: no Content-Length, or one of a value up to MaxBody under
\* either spelling of the name
Heads ==
    {RequestLine \o CRLF \o CRLF}
    \cup {RequestLine \o CRLF \o name \o <<":", SP>> \o NatToString(n) \o CRLF \o CRLF
            : name \in HeaderNames, n \in 0..MaxBody}

BodyBytes == <<"a", "b", "c", "d", "e", "f">>

\* what the peer sends: a head and up to MaxBody + 1 bytes after it
Wires == {head \o SubSeq(BodyBytes, 1, k) : head \in Heads, k \in 0..(MaxBody + 1)}

\* the reads that deliver wire when it is cut at the places of cuts
RECURSIVE Chunks(_, _, _)
Chunks(wire, cuts, from) ==
    IF cuts = {} THEN <<SubSeq(wire, from, Len(wire))>>
    ELSE LET c == CHOOSE i \in cuts : \A j \in cuts : i <= j
         IN  <<SubSeq(wire, from, c)>> \o Chunks(wire, cuts \ {c}, c + 1)

\* the subsets of S of at most k elements
RECURSIVE SubsetsUpTo(_, _)
SubsetsUpTo(S, k) ==
    IF k = 0 THEN {{}}
    ELSE LET smaller == SubsetsUpTo(S, k - 1)
         IN  smaller \cup {c \cup {i} : c \in smaller, i \in S}

\* the socket cuts after the request line, inside the blank line that ends
\* the head, and anywhere after it
CutPlaces(wire) ==
    {Len(RequestLine)} \cup ((find_headers_end(wire) - 1)..(Len(wire) - 1))

CutSets(wire) == SubsetsUpTo(CutPlaces(wire), MaxCuts)

RoutedApp == insert_handler(NewApp, "POST", <<"/">>, 1)

InitProcess ==
    /\ input = <<>>
    /\ tokens = <<>>
    /\ position = 0
    /\ record = NoRecord
    /\ result = NoResult
    /\ target = NoTarget
    /\ \/ app = NewApp /\ history = <<>>
       \/ app = RoutedApp /\ history = <<Registration("post", "POST", <<"/">>, 1)>>
    /\ served = NoServed
    /\ \E wire \in Wires, end \in {"close", "error"} :
         \E cuts \in CutSets(wire) :
            socket = [reads |-> Chunks(wire, cuts, 1), at |-> 0, end |-> end,
                      written |-> <<>>]

\* self.process(&mut socket) on a connection just accepted
Process ==
    /\ socket.at = 0
    /\ LET out == process(app, socket) IN
       /\ socket' = [socket EXCEPT !.at = out.at, !.written = out.written]
       /\ served' = IF out.handled
                    THEN [req |-> out.req, response |-> out.response, calls |-> out.calls]
                    ELSE served
    /\ UNCHANGED <<target, app, history>>
    /\ UNCHANGED jsonVars

NextProcess == Process

SpecProcess == InitProcess /\ [][NextProcess]_vars

\* what the peer sent, the head of it, and the bytes after the head
Wire     == Flatten(socket.reads)
HeadText == SubSeq(Wire, 1, (find_headers_end(Wire) - 1) + 4)
SentBody == SubSeq(Wire, Len(HeadText) + 1, Len(Wire))

\* process has handed a request to handle_request and written the response
Handled == socket.at > 0 /\ socket.written # <<>>

\* the Content-Length a head declares: the value of the first header whose
\* name is content-length in any letter case, 0 when there is none
RECURSIVE DeclaredFrom(_, _)
DeclaredFrom(ls, i) ==
    IF i > Len(ls) THEN 0
    ELSE LET colon == find(ls[i], ":") IN
         IF colon # 0 /\ to_lowercase(trim(SubSeq(ls[i], 1, colon - 1)))
                          = to_lowercase(ContentLengthName)
         THEN parse_usize(trim(SubSeq(ls[i], colon + 1, Len(ls[i])))).val
         ELSE DeclaredFrom(ls, i + 1)

Declared == DeclaredFrom(lines(HeadText), 2)

\* C24: however the socket cuts the request into reads, the body of the
\* request given to handle_request has at most Content-Length bytes.
C24_BodyWithinContentLength ==
    Handled => Len(served.req.body) <= Declared

\* C25: when the head declares a Content-Length above 0, a request is
\* given to handle_request, and a response written, only with all the
\* declared bytes of the body read.
C25_HandlerAfterFullBody ==
    (Handled /\ Declared > 0) => Len(served.req.body) >= Declared

\* C26: the content_length HttpRequest::parse stores in the request is the
\* value get_content_length takes from the same head, in whatever letter
\* case the header name is written.
C26_ContentLengthAgrees ==
    Handled => served.req.content_length = get_content_length(HeadText)

====
